---- MODULE Spec2Model ----
(***************************************************************************)
(* disclaude-gate: the approval broker of src/src/server.py and the        *)
(* PreToolUse hook script of src/hooks/disclaude_gate_hook.py.             *)
(*                                                                         *)
(* The broker is an asyncio program: every handler runs without            *)
(* interruption between two awaits, so each action below is the code of    *)
(* one handler from one suspension point to the next.  The Discord         *)
(* channel is the environment: a network call returns or raises, a human   *)
(* presses buttons on the views that were sent, timers fire.               *)
(***************************************************************************)
EXTENDS Naturals, FiniteSets, Sequences, TLC

\* ------------------------------------------------------------------ bounds

\* Handler invocations run in slots; a slot is reused once its handler has
\* ended.  Spec runs MaxApprovals POST /approve next to MaxStops POST
\* /notify-stop; SpecPair runs MaxPair POST /approve side by side.
MaxApprovals == 1
MaxPair == 2
MaxStops == 1
\* Threads the channel gives out in Spec (create_thread raises beyond it).
MaxThreads == 1
\* Threads the channel gives out in SpecResolve.
MaxNamedThreads == 2

ApprovalSlots == 1 .. MaxApprovals
PairSlots == 1 .. MaxPair
StopSlots == (MaxPair + 1) .. (MaxPair + MaxStops)
Procs == 1 .. (MaxPair + MaxStops)
ThreadIds == 1 .. MaxThreads
\* SpecPair: every POST /approve in flight can be answered a thread of its own.
PairThreadIds == 1 .. MaxPair
NamedThreadIds == 1 .. MaxNamedThreads

\* Python's None, and the absent registry entry / thread binding.
NoneVal == "<none>"
NoProc == 0
NoThread == 0

\* The body of a POST: not JSON (request.json() raises), JSON that is no
\* object (body.get raises AttributeError), or a JSON object.
NotJson == "not json"
NotObject == "not object"
Object == "object"
Bodies == {NotJson, NotObject, Object}

\* Inputs of the HTTP envelopes.  "" is the default of body.get(..., "").
RequestIds == {"", "r1"}
SessionIds == {"", "s1"}
ToolNames == {"Bash", "AskUserQuestion"}
Panes == {"", "%1"}
\* session_title as _extract_session_context derives it from the envelope.
Titles == {"proj"}
\* len(questions) of an AskUserQuestion tool_input.
QuestionCounts == {1, 2}
\* SpecResolve: a session without a title (its thread is named after the
\* session_id) and one with a title.
ResolveTitles == {"", "proj"}
ReplyTexts == {"typed"}
OptionLabels == {"optA"}
\* Two requests side by side that differ in their request_id, two sessions
\* that differ in their session_id.
DistinctRequestIds == {"r1", "r2"}
DistinctSessionIds == {"s1", "s2"}
\* The keys the dicts _pending and _session_threads are looked up with.
PendingKeys == RequestIds \cup DistinctRequestIds
SessionKeys == SessionIds \cup DistinctSessionIds

\* ------------------------------------------------------------------- state

VARIABLES
    bot_ready,                \* _bot_ready (asyncio.Event)
    pending,                  \* _pending: request_id -> PendingRequest
    sessions_with_approvals,  \* _sessions_with_approvals
    auto_allow_sessions,      \* _auto_allow_sessions
    session_threads,          \* _session_threads: session_id -> Thread
    threads,                  \* the channel's threads: name, archived
    call,                     \* the frame of each handler invocation
    req,                      \* the PendingRequest each invocation created
    view,                     \* the view each invocation sent
    interaction_reply,        \* what the step just taken answered an interaction
    humanWrote,               \* history: a human resolution wrote into req[p]
    closed,                   \* history: sessions closed and not seen since
    hook                      \* the run of the PreToolUse hook script

vars == <<bot_ready, pending, sessions_with_approvals, auto_allow_sessions,
          session_threads, threads, call, req, view, interaction_reply,
          humanWrote, closed, hook>>

NoResponse == [status |-> 0, decision |-> NoneVal, reason |-> NoneVal]

IdleCall == [pc |-> "idle", kind |-> NoneVal, rid |-> "", sid |-> "",
             tool |-> NoneVal, pane |-> "", title |-> "", qn |-> 0,
             th |-> NoThread, response |-> NoResponse]

\* PendingRequest(request_id, tool_name, tool_input): event unset, no decision.
NewRequest == [decision |-> NoneVal, reason |-> NoneVal, event |-> FALSE]

\* A view before it is sent: posted is thread.send having returned, stopped is
\* View.is_finished(), stopping a callback on its way to self.stop(), answers
\* the keys of AskUserQuestionView._answers.
NoView == [posted |-> FALSE, stopped |-> FALSE, stopping |-> FALSE,
           answers |-> {}]

\* What the hook script printed on stdout: nothing.
NoOutput == [decision |-> NoneVal, reason |-> NoneVal]

\* The hook script before it is started: no stdin read, no reply, no output.
\* The answers of git: rev-parse --is-inside-work-tree exits 0, rev-parse
\* --show-toplevel exits 0, and whether git ls-files runs or raises (a
\* timeout).
NoRepo == [in_repo |-> FALSE, toplevel |-> FALSE, ls_files |-> "runs"]
NoEnvelope == [stdin |-> NoneVal, tool |-> NoneVal, session_id |-> NoneVal,
               tool_input |-> NoneVal, command |-> <<>>, tmux |-> FALSE,
               repo |-> NoRepo]
NoReply == [kind |-> NoneVal, decision |-> NoneVal, reason |-> NoneVal]
\* The run of the hook script before this one: its envelope and what the
\* hook made of it.
NoRun == [env |-> NoEnvelope, verdict |-> NoneVal]
\* waited is the time in seconds the POST /approve has been open, timeout
\* the APPROVAL_TIMEOUT of the broker that received it.
HookIdle == [pc |-> "idle", env |-> NoEnvelope, reply |-> NoReply,
             out |-> NoOutput, waited |-> 0, timeout |-> 0, last |-> NoRun]

Init ==
    /\ bot_ready = FALSE
    /\ pending = [r \in PendingKeys |-> NoProc]
    /\ sessions_with_approvals = {}
    /\ auto_allow_sessions = {}
    /\ session_threads = [s \in SessionKeys |-> NoThread]
    /\ threads = <<>>
    /\ call = [p \in Procs |-> IdleCall]
    /\ req = [p \in Procs |-> NewRequest]
    /\ view = [p \in Procs |-> NoView]
    /\ interaction_reply = NoneVal
    /\ humanWrote = [p \in Procs |-> FALSE]
    /\ closed = {}
    /\ hook = HookIdle

\* ---------------------------------------------------------------- helpers

PoppedNot(r) == pending

PoppedEvery(r) == [x \in DOMAIN pending |-> NoProc]

\* _pending.get(request_id) is not None
Registered(r) == pending[r] # NoProc

\* _pending.pop(request_id, None)
Popped(r) == [pending EXCEPT ![r] = NoProc]

AutoAllowedNever(s) == FALSE

\* session_id in _auto_allow_sessions
AutoAllowed(s) == s \in auto_allow_sessions

\* thread_name = session_title or session_id[:12]
ThreadName(s, title) == IF title # "" THEN title ELSE s

\* The HTTP responses of web.json_response.
Decided(d, r) == [status |-> 200, decision |-> d, reason |-> r]
HttpError(code) == [status |-> code, decision |-> NoneVal, reason |-> NoneVal]
StatusOk == [status |-> 200, decision |-> "ok", reason |-> NoneVal]

\* result = {"decision": req.decision or "deny"}; reason only when truthy
ResultOf(q) ==
    Decided(IF q.decision = NoneVal THEN "deny" ELSE q.decision,
            IF q.reason = "" THEN NoneVal ELSE q.reason)

\* on_ready
on_ready ==
    /\ ~bot_ready
    /\ bot_ready' = TRUE
    /\ UNCHANGED <<hook, closed,
                   pending, sessions_with_approvals, auto_allow_sessions,
                   session_threads, threads, call, req, view, humanWrote>>
    /\ interaction_reply' = NoneVal

\* ------------------------------------------------ handle_approval: entry

\* handle_approval from the parse of the body to its first suspension.
handle_approval(p, body, rid, sid, tool, pane, title, qn) ==
    /\ call[p].pc = "idle"
    /\ LET c == [IdleCall EXCEPT !.kind = "approve", !.rid = rid, !.sid = sid,
                                 !.tool = tool, !.title = title,
                                 !.qn = IF tool = "AskUserQuestion" THEN qn
                                                                    ELSE 0]
       IN
       IF body = NotObject
       THEN \* body.get raises: the exception leaves the handler
            /\ call' = [call EXCEPT ![p] =
                           [IdleCall EXCEPT !.kind = "approve", !.pc = "done",
                                            !.response = HttpError(500)]]
            /\ UNCHANGED <<pending, sessions_with_approvals, req>>
       ELSE IF body = NotJson \/ rid = ""
       THEN \* invalid json, or request_id required
            /\ call' = [call EXCEPT ![p] =
                           [IdleCall EXCEPT !.kind = "approve", !.pc = "done",
                                            !.response = HttpError(400)]]
            /\ UNCHANGED <<pending, sessions_with_approvals, req>>
       ELSE /\ sessions_with_approvals' =
                   IF sid # "" THEN sessions_with_approvals \cup {sid}
                               ELSE sessions_with_approvals
            /\ IF AutoAllowed(sid)
               THEN /\ call' = [call EXCEPT ![p] =
                          [c EXCEPT !.pc = "done",
                                    !.response = Decided("allow", NoneVal)]]
                    /\ UNCHANGED <<pending, req>>
               ELSE IF tool = "AskUserQuestion" /\ pane # ""
               THEN \* allow now; _ask_question_via_tmux runs as its own task
                    /\ call' = [call EXCEPT ![p] =
                          [c EXCEPT !.pc = "ready", !.kind = "tmuxask",
                                    !.response = Decided("allow", NoneVal)]]
                    /\ UNCHANGED <<pending, req>>
               ELSE /\ req' = [req EXCEPT ![p] = NewRequest]
                    /\ pending' = [pending EXCEPT ![rid] = p]
                    /\ call' = [call EXCEPT ![p] = [c EXCEPT !.pc = "ready"]]
    /\ UNCHANGED <<hook,
                   bot_ready, auto_allow_sessions, session_threads, threads,
                   view, humanWrote>>
    /\ interaction_reply' = NoneVal
    /\ closed' = IF body = Object /\ rid # "" THEN closed \ {sid} ELSE closed

\* ----------------------------------------------------- handle_stop: entry

\* handle_stop from the parse of the body to its first suspension.
handle_stop(p, body, sid, pane, title) ==
    /\ call[p].pc = "idle"
    /\ LET c == [IdleCall EXCEPT !.kind = "stop", !.sid = sid, !.pane = pane,
                                 !.title = title]
       IN call' = [call EXCEPT ![p] =
                     IF body = Object THEN [c EXCEPT !.pc = "ready"]
                     ELSE [IdleCall EXCEPT
                              !.kind = "stop", !.pc = "done",
                              !.response = IF body = NotJson
                                           THEN HttpError(400)
                                           ELSE HttpError(500)]]
    /\ UNCHANGED <<hook, closed,
                   bot_ready, pending, sessions_with_approvals,
                   auto_allow_sessions, session_threads, threads, req, view,
                   humanWrote>>
    /\ interaction_reply' = NoneVal

\* ------------------------------------------------------ shared suspensions

\* An exception leaves the handler: aiohttp answers 500 for handle_approval
\* and handle_stop; _ask_question_via_tmux logs it and ends.
Raised(c) ==
    [c EXCEPT !.pc = "done", !.title = "", !.th = NoThread,
              !.response = IF c.kind = "tmuxask" THEN c.response
                                                 ELSE HttpError(500)]

\* History: the session a POST /notify-stop without tmux_pane names is closed
\* once handle_stop has answered it.
ClosedBy(c) ==
    IF c.kind = "stop" /\ c.pane = "" /\ c.sid # "" /\ c.pc = "done"
    THEN closed \cup {c.sid} ELSE closed

\* await _bot_ready.wait(); bot.get_channel / bot.fetch_channel.
channel_lookup(p, found) ==
    /\ call[p].pc = "ready"
    /\ bot_ready
    /\ IF found
       THEN /\ call' = [call EXCEPT ![p].pc = "thread"]
            /\ UNCHANGED pending
       ELSE /\ call' = [call EXCEPT ![p] = Raised(call[p])]
            /\ pending' = IF call[p].kind = "approve" THEN Popped(call[p].rid)
                                                      ELSE pending
    /\ UNCHANGED <<hook,
                   bot_ready, sessions_with_approvals, auto_allow_sessions,
                   session_threads, threads, req, view, humanWrote>>
    /\ interaction_reply' = NoneVal
    /\ closed' = ClosedBy(call'[p])

\* ---------------------------------------------------- _get_or_create_thread

ArchivedNamedNone(name) == {}


\* The channel's threads of that name, open (channel.threads) or archived
\* (channel.archived_threads); the loops return the first match.
ActiveNamed(name) ==
    {t \in 1 .. Len(threads) : threads[t].name = name /\ ~threads[t].archived}
ArchivedNamed(name) ==
    {t \in 1 .. Len(threads) : threads[t].name = name /\ threads[t].archived}
First(S) == CHOOSE t \in S : \A u \in S : t <= u

\* From "thread_name = ..." to the next await: the loop over channel.threads.
\* A match is bound and returned, otherwise the archived threads are fetched.
FindActive(p) ==
    LET name == ThreadName(call[p].sid, call[p].title)
    IN IF ActiveNamed(name) # {}
       THEN /\ call' = [call EXCEPT ![p].pc = "send",
                                    ![p].th = First(ActiveNamed(name))]
            /\ session_threads' = [session_threads EXCEPT ![call[p].sid] =
                                      First(ActiveNamed(name))]
       ELSE /\ call' = [call EXCEPT ![p].pc = "list_archived"]
            /\ UNCHANGED session_threads

\* _get_or_create_thread up to its first await.
get_or_create_thread(p) ==
    /\ call[p].pc = "thread"
    /\ LET t == session_threads[call[p].sid]
       IN IF t # NoThread
          THEN /\ call' = [call EXCEPT
                     ![p].pc = IF threads[t].archived THEN "unarchive_bound"
                                                      ELSE "send",
                     ![p].th = t]
               /\ UNCHANGED session_threads
          ELSE FindActive(p)
    /\ UNCHANGED <<hook, closed,
                   bot_ready, pending, sessions_with_approvals,
                   auto_allow_sessions, threads, req, view, humanWrote>>
    /\ interaction_reply' = NoneVal

\* await thread.edit(archived=False) on the bound thread; an exception is
\* swallowed and the lookup by name follows.
unarchive_bound(p, ok) ==
    /\ call[p].pc = "unarchive_bound"
    /\ IF ok
       THEN /\ threads' = [threads EXCEPT ![call[p].th].archived = FALSE]
            /\ call' = [call EXCEPT ![p].pc = "send"]
            /\ UNCHANGED session_threads
       ELSE /\ FindActive(p)
            /\ UNCHANGED threads
    /\ UNCHANGED <<hook, closed,
                   bot_ready, pending, sessions_with_approvals,
                   auto_allow_sessions, req, view, humanWrote>>
    /\ interaction_reply' = NoneVal

\* async for thread in channel.archived_threads(limit=50)
list_archived(p, ok) ==
    /\ call[p].pc = "list_archived"
    /\ LET name == ThreadName(call[p].sid, call[p].title)
       IN call' = [call EXCEPT ![p] =
                     IF ~ok THEN Raised(call[p])
                     ELSE IF ArchivedNamed(name) # {}
                     THEN [call[p] EXCEPT !.pc = "unarchive_found",
                                          !.th = First(ArchivedNamed(name))]
                     ELSE [call[p] EXCEPT !.pc = "create"]]
    /\ UNCHANGED <<hook,
                   bot_ready, pending, sessions_with_approvals,
                   auto_allow_sessions, session_threads, threads, req, view,
                   humanWrote>>
    /\ interaction_reply' = NoneVal
    /\ closed' = ClosedBy(call'[p])

\* await thread.edit(archived=False) on the thread found in the archive, then
\* _session_threads[session_id] = thread.
unarchive_found(p, ok) ==
    /\ call[p].pc = "unarchive_found"
    /\ IF ok
       THEN /\ threads' = [threads EXCEPT ![call[p].th].archived = FALSE]
            /\ session_threads' = [session_threads EXCEPT ![call[p].sid] =
                                      call[p].th]
            /\ call' = [call EXCEPT ![p].pc = "send"]
       ELSE /\ call' = [call EXCEPT ![p] = Raised(call[p])]
            /\ UNCHANGED <<threads, session_threads>>
    /\ UNCHANGED <<hook,
                   bot_ready, pending, sessions_with_approvals,
                   auto_allow_sessions, req, view, humanWrote>>
    /\ interaction_reply' = NoneVal
    /\ closed' = ClosedBy(call'[p])

\* await channel.create_thread(name=thread_name, ...), then the binding.
\* t is the thread the channel answers with, NoThread when the call raises.
create_thread(p, t) ==
    /\ call[p].pc = "create"
    /\ t = NoThread \/ t = Len(threads) + 1
    /\ IF t # NoThread
       THEN /\ threads' = Append(threads,
                   [name |-> ThreadName(call[p].sid, call[p].title),
                    archived |-> FALSE])
            /\ session_threads' = [session_threads EXCEPT ![call[p].sid] =
                                      Len(threads) + 1]
            /\ call' = [call EXCEPT ![p].pc = "send",
                                    ![p].th = Len(threads) + 1]
       ELSE /\ call' = [call EXCEPT ![p] = Raised(call[p])]
            /\ UNCHANGED <<threads, session_threads>>
    /\ UNCHANGED <<hook,
                   bot_ready, pending, sessions_with_approvals,
                   auto_allow_sessions, req, view, humanWrote>>
    /\ interaction_reply' = NoneVal
    /\ closed' = ClosedBy(call'[p])

\* Discord archives a thread after auto_archive_duration minutes of silence.
auto_archive(t) ==
    /\ t \in 1 .. Len(threads)
    /\ ~threads[t].archived
    /\ threads' = [threads EXCEPT ![t].archived = TRUE]
    /\ UNCHANGED <<hook, closed,
                   bot_ready, pending, sessions_with_approvals,
                   auto_allow_sessions, session_threads, call, req, view,
                   humanWrote>>
    /\ interaction_reply' = NoneVal

\* ------------------------------------------- after the thread is resolved

\* The call of slot p goes from the cleanup of handle_stop into
\* _archive_thread: to the await of thread.edit when the session has a
\* binding, to the answer when it has none.
Archiving(p) ==
    IF session_threads[call[p].sid] # NoThread
    THEN [call[p] EXCEPT !.pc = "archiving",
                         !.th = session_threads[call[p].sid]]
    ELSE [call[p] EXCEPT !.pc = "done", !.response = StatusOk]

StopClearedAndCancelled(p) ==
    /\ sessions_with_approvals' = sessions_with_approvals \ {call[p].sid}
    /\ auto_allow_sessions' = auto_allow_sessions \ {call[p].sid}
    /\ session_threads' = [session_threads EXCEPT ![call[p].sid] = NoThread]
    /\ call' = [call EXCEPT ![p] = Archiving(p)]
    /\ view' = [q \in Procs |->
                  IF call[q].kind = "approve" /\ call[q].sid = call[p].sid
                  THEN [view[q] EXCEPT !.stopped = TRUE] ELSE view[q]]

\* _archive_thread up to its await: the binding is popped.
\* handle_stop without a pane: both flags are discarded first.  The views of
\* the session's requests are not touched.
StopCleared(p) ==
    /\ sessions_with_approvals' = sessions_with_approvals \ {call[p].sid}
    /\ auto_allow_sessions' = auto_allow_sessions \ {call[p].sid}
    /\ session_threads' = [session_threads EXCEPT ![call[p].sid] = NoThread]
    /\ call' = [call EXCEPT ![p] = Archiving(p)]
    /\ UNCHANGED view

SessionFinishedAlways(p) == call[p].kind = "stop"

\* handle_stop's "else" of "if tmux_pane": the session has finished.
SessionFinished(p) == call[p].kind = "stop" /\ call[p].pane = ""

\* await thread.send(embed=embed, view=view) and what follows it up to the
\* next suspension.  handle_approval goes on to the alert and the wait,
\* handle_stop to its cleanup, _ask_question_via_tmux to its end.
thread_send(p, ok) ==
    /\ call[p].pc = "send"
    /\ IF ~ok
       THEN /\ call' = [call EXCEPT ![p] = Raised(call[p])]
            /\ UNCHANGED <<sessions_with_approvals, auto_allow_sessions,
                           session_threads, view>>
       ELSE IF call[p].kind = "approve"
       THEN /\ call' = [call EXCEPT ![p].pc = "waiting", ![p].title = "",
                                    ![p].th = NoThread]
            /\ view' = [view EXCEPT ![p] = [NoView EXCEPT !.posted = TRUE]]
            /\ UNCHANGED <<sessions_with_approvals, auto_allow_sessions,
                           session_threads>>
       ELSE IF SessionFinished(p)
       THEN StopCleared(p)
       ELSE /\ call' = [call EXCEPT ![p].pc = "done", ![p].title = "",
                   ![p].th = NoThread,
                   ![p].response = IF call[p].kind = "stop" THEN StatusOk
                                                            ELSE @]
            /\ UNCHANGED <<sessions_with_approvals, auto_allow_sessions,
                           session_threads, view>>
    /\ UNCHANGED <<hook,
                   bot_ready, pending, threads, req, humanWrote>>
    /\ interaction_reply' = NoneVal
    /\ closed' = ClosedBy(call'[p])

\* await thread.edit(archived=True) in _archive_thread; an exception is
\* swallowed.  handle_stop then answers {status: ok}.
archive_thread(p, ok) ==
    /\ call[p].pc = "archiving"
    /\ threads' = IF ok THEN [threads EXCEPT ![call[p].th].archived = TRUE]
                        ELSE threads
    /\ call' = [call EXCEPT ![p].pc = "done", ![p].response = StatusOk]
    /\ UNCHANGED <<hook,
                   bot_ready, pending, sessions_with_approvals,
                   auto_allow_sessions, session_threads, req, view,
                   humanWrote>>
    /\ interaction_reply' = NoneVal
    /\ closed' = ClosedBy(call'[p])

\* await channel.send(alert) raises while handle_approval is past thread.send:
\* the exception leaves the handler, nothing is popped.
alert_raises(p) ==
    /\ call[p].pc = "waiting"
    /\ call' = [call EXCEPT ![p] = Raised(call[p])]
    /\ UNCHANGED <<hook, closed,
                   bot_ready, pending, sessions_with_approvals,
                   auto_allow_sessions, session_threads, threads, req, view,
                   humanWrote>>
    /\ interaction_reply' = NoneVal

\* ------------------------------------------------- the wait and its result

TimeoutDecisionAllow == "allow"
TimeoutDecision == "deny"
ApprovalTimeoutReason == "Timed out waiting for approval"
ResponseTimeoutReason == "Timed out waiting for response"

\* asyncio.wait_for returns: the event is set.  Pop, build the result.
wait_returns(p) ==
    /\ call[p].pc = "waiting"
    /\ req[p].event
    /\ pending' = Popped(call[p].rid)
    /\ call' = [call EXCEPT ![p].pc = "done", ![p].response = ResultOf(req[p])]
    /\ UNCHANGED <<hook, closed,
                   bot_ready, sessions_with_approvals, auto_allow_sessions,
                   session_threads, threads, req, view, humanWrote>>
    /\ interaction_reply' = NoneVal

\* asyncio.wait_for raises TimeoutError: the timer of APPROVAL_TIMEOUT + 5
\* fired before the waiting task ran again.
wait_times_out(p) ==
    /\ call[p].pc = "waiting"
    /\ req' = [req EXCEPT ![p].decision = TimeoutDecision,
                          ![p].reason = ApprovalTimeoutReason]
    /\ pending' = Popped(call[p].rid)
    /\ call' = [call EXCEPT ![p].pc = "done",
                            ![p].response = ResultOf(req'[p])]
    /\ UNCHANGED <<hook, closed,
                   bot_ready, sessions_with_approvals, auto_allow_sessions,
                   session_threads, threads, view, humanWrote>>
    /\ interaction_reply' = NoneVal

\* ------------------------------------------------------ the views' callbacks

\* A view dispatches interactions from thread.send until it is finished
\* (self.stop() or its timeout).
ViewLive(p) == view[p].posted /\ ~view[p].stopped
IsApprovalView(p) == call[p].kind = "approve" /\ call[p].tool # "AskUserQuestion"
IsAskView(p) == call[p].kind = "approve" /\ call[p].tool = "AskUserQuestion"

\* req = _pending.get(self.request_id): the request a callback of p's view
\* reaches.
Target(p) == pending[call[p].rid]

ExpiredAccepted ==
    /\ interaction_reply' = "ok"
    /\ UNCHANGED <<req, humanWrote>>

\* "This request has already expired."
Expired ==
    /\ interaction_reply' = "expired"
    /\ UNCHANGED <<req, humanWrote>>

\* req.decision = d; req.reason = r (when the callback writes one);
\* req.event.set(); then the interaction is answered.
Keep == "<keep>"
Resolve(p, d, r) ==
    /\ req' = [req EXCEPT ![Target(p)] =
                  [decision |-> d,
                   reason |-> IF r = Keep THEN @.reason ELSE r,
                   event |-> TRUE]]
    /\ humanWrote' = [humanWrote EXCEPT ![Target(p)] = TRUE]
    /\ interaction_reply' = "ok"

\* The callback goes on, after its awaits, to self.stop().
Stopping(p) == [view EXCEPT ![p].stopping = TRUE]

\* ApprovalView.allow
allow(p) ==
    /\ ViewLive(p) /\ IsApprovalView(p)
    /\ IF ~Registered(call[p].rid)
       THEN Expired /\ UNCHANGED view
       ELSE Resolve(p, "allow", Keep) /\ view' = Stopping(p)
    /\ UNCHANGED <<hook, closed,
                   bot_ready, pending, sessions_with_approvals,
                   auto_allow_sessions, session_threads, threads, call>>

\* ApprovalView.deny
deny(p) ==
    /\ ViewLive(p) /\ IsApprovalView(p)
    /\ IF ~Registered(call[p].rid)
       THEN Expired /\ UNCHANGED view
       ELSE Resolve(p, "deny", Keep) /\ view' = Stopping(p)
    /\ UNCHANGED <<hook, closed,
                   bot_ready, pending, sessions_with_approvals,
                   auto_allow_sessions, session_threads, threads, call>>

EscalatedNever(s) == auto_allow_sessions

\* if self.session_id: _auto_allow_sessions.add(self.session_id)
Escalated(s) == IF s # "" THEN auto_allow_sessions \cup {s}
                          ELSE auto_allow_sessions

\* ApprovalView.allow_all
allow_all(p) ==
    /\ ViewLive(p) /\ IsApprovalView(p)
    /\ IF ~Registered(call[p].rid)
       THEN Expired /\ UNCHANGED <<view, auto_allow_sessions>>
       ELSE /\ auto_allow_sessions' = Escalated(call[p].sid)
            /\ Resolve(p, "allow", Keep)
            /\ view' = Stopping(p)
    /\ UNCHANGED <<hook,
                   bot_ready, pending, sessions_with_approvals,
                   session_threads, threads, call>>
    /\ closed' = IF Registered(call[p].rid) /\ call[p].sid # ""
                 THEN closed \ {call[p].sid} ELSE closed

\* ReplyModal.on_submit.  The modal is opened by the Reply button of an
\* ApprovalView or the Other button of an AskUserQuestionView (send_modal
\* changes nothing of the broker) and outlives the view: it can be submitted
\* at any time after the message was sent.  It does not stop the view.
on_submit(p, text) ==
    /\ view[p].posted
    /\ IF ~Registered(call[p].rid) THEN Expired
                                   ELSE Resolve(p, "deny", text)
    /\ UNCHANGED <<hook, closed,
                   bot_ready, pending, sessions_with_approvals,
                   auto_allow_sessions, session_threads, threads, call, view>>

\* AskUserQuestionView._make_button_callback: one button per option of a
\* single question.
button_callback(p, label) ==
    /\ ViewLive(p) /\ IsAskView(p)
    /\ call[p].qn <= 1
    /\ IF ~Registered(call[p].rid)
       THEN Expired /\ UNCHANGED view
       ELSE Resolve(p, "deny", label) /\ view' = Stopping(p)
    /\ UNCHANGED <<hook, closed,
                   bot_ready, pending, sessions_with_approvals,
                   auto_allow_sessions, session_threads, threads, call>>

\* questions[:4]: the dropdowns a multi-question view shows.
MaxDropdowns == 4
Dropdowns(p) == 1 .. (IF call[p].qn < MaxDropdowns THEN call[p].qn
                                                  ELSE MaxDropdowns)

\* AskUserQuestionView._make_select_callback
select_callback(p, qi) ==
    /\ ViewLive(p) /\ IsAskView(p)
    /\ call[p].qn > 1
    /\ qi \in Dropdowns(p)
    /\ qi \notin view[p].answers
    /\ view' = [view EXCEPT ![p].answers = @ \cup {qi}]
    /\ UNCHANGED <<hook, closed,
                   bot_ready, pending, sessions_with_approvals,
                   auto_allow_sessions, session_threads, threads, call, req,
                   humanWrote>>
    /\ interaction_reply' = NoneVal

CombinedAnswers == "Q1: ..."

\* AskUserQuestionView._submit_callback
submit_callback(p) ==
    /\ ViewLive(p) /\ IsAskView(p)
    /\ call[p].qn > 1
    /\ IF ~Registered(call[p].rid)
       THEN Expired /\ UNCHANGED view
       ELSE IF Cardinality(view[p].answers) < call[p].qn
       THEN /\ interaction_reply' = "incomplete"
            /\ UNCHANGED <<req, humanWrote, view>>
       ELSE Resolve(p, "deny", CombinedAnswers) /\ view' = Stopping(p)
    /\ UNCHANGED <<hook, closed,
                   bot_ready, pending, sessions_with_approvals,
                   auto_allow_sessions, session_threads, threads, call>>

\* self.stop() at the end of a callback, after its awaits.
view_stop(p) ==
    /\ view[p].stopping
    /\ view' = [view EXCEPT ![p].stopped = TRUE, ![p].stopping = FALSE]
    /\ UNCHANGED <<hook, closed,
                   bot_ready, pending, sessions_with_approvals,
                   auto_allow_sessions, session_threads, threads, call, req,
                   humanWrote>>
    /\ interaction_reply' = NoneVal

\* ApprovalView.on_timeout and AskUserQuestionView.on_timeout: the view's
\* own timer of APPROVAL_TIMEOUT ended it.
on_timeout(p) ==
    /\ ViewLive(p)
    /\ view' = [view EXCEPT ![p].stopped = TRUE, ![p].stopping = FALSE]
    /\ IF Registered(call[p].rid) /\ ~req[Target(p)].event
       THEN req' = [req EXCEPT ![Target(p)] =
                      [decision |-> TimeoutDecision,
                       reason |-> IF IsAskView(p) THEN ResponseTimeoutReason
                                                  ELSE ApprovalTimeoutReason,
                       event |-> TRUE]]
       ELSE req' = req
    /\ UNCHANGED <<hook, closed,
                   bot_ready, pending, sessions_with_approvals,
                   auto_allow_sessions, session_threads, threads, call,
                   humanWrote>>
    /\ interaction_reply' = NoneVal

\* --------------------------------------------------------- the whole system

\* The handler has ended and nothing refers to it any more: its slot takes
\* the next request.
forget(p) ==
    /\ call[p].pc = "done"
    /\ \A r \in PendingKeys : pending[r] # p
    /\ call' = [call EXCEPT ![p] = IdleCall]
    /\ req' = [req EXCEPT ![p] = NewRequest]
    /\ view' = [view EXCEPT ![p] = NoView]
    /\ humanWrote' = [humanWrote EXCEPT ![p] = FALSE]
    /\ UNCHANGED <<hook, closed,
                   bot_ready, pending, sessions_with_approvals,
                   auto_allow_sessions, session_threads, threads>>
    /\ interaction_reply' = NoneVal

\* What the event loop, the channel and the timers do to the handler in slot
\* p once it is past its entry.
HandlerStep(p) ==
    \/ \E ok \in BOOLEAN : channel_lookup(p, ok)
    \/ get_or_create_thread(p)
    \/ \E ok \in BOOLEAN : unarchive_bound(p, ok)
    \/ \E ok \in BOOLEAN : list_archived(p, ok)
    \/ \E ok \in BOOLEAN : unarchive_found(p, ok)
    \/ \E t \in ThreadIds \cup {NoThread} : create_thread(p, t)
    \/ \E ok \in BOOLEAN : thread_send(p, ok)
    \/ alert_raises(p)
    \/ wait_returns(p)
    \/ wait_times_out(p)

\* What a human does with the view sent for slot p, and the view's own end.
ViewStep(p) ==
    \/ allow(p)
    \/ deny(p)
    \/ allow_all(p)
    \/ \E text \in ReplyTexts : on_submit(p, text)
    \/ \E label \in OptionLabels : button_callback(p, label)
    \/ \E qi \in 1 .. MaxDropdowns : select_callback(p, qi)
    \/ submit_callback(p)
    \/ view_stop(p)
    \/ on_timeout(p)

\* POST /approve with any envelope.
Approve(p) ==
    \E body \in Bodies, rid \in RequestIds, sid \in SessionIds,
       tool \in ToolNames, pane \in Panes, title \in Titles,
       qn \in QuestionCounts :
       handle_approval(p, body, rid, sid, tool, pane, title, qn)

\* POST /notify-stop with any envelope.
Stop(p) ==
    \E body \in Bodies, sid \in SessionIds, pane \in Panes,
       title \in Titles :
       handle_stop(p, body, sid, pane, title)

\* One POST /approve at a time next to one POST /notify-stop.
Next ==
    \/ on_ready
    \/ \E p \in ApprovalSlots : Approve(p)
    \/ \E p \in StopSlots : Stop(p)
    \/ \E p \in ApprovalSlots \cup StopSlots : HandlerStep(p)
    \/ \E p \in StopSlots, ok \in BOOLEAN : archive_thread(p, ok)
    \/ \E p \in ApprovalSlots : ViewStep(p)
    \/ \E t \in ThreadIds : auto_archive(t)
    \/ \E p \in ApprovalSlots \cup StopSlots : forget(p)

Spec == Init /\ [][Next]_vars

\* ------------------------------------------------------- two POST /approve

\* A well-formed POST /approve for the approval buttons.
ApproveBash(p) ==
    \E rid \in RequestIds \ {""}, sid \in SessionIds, title \in Titles :
       handle_approval(p, Object, rid, sid, "Bash", "", title, 1)

\* Two POST /approve side by side while the channel answers every call.
NextPair ==
    \/ on_ready
    \/ \E p \in PairSlots : ApproveBash(p)
    \/ \E p \in PairSlots : channel_lookup(p, TRUE)
    \/ \E p \in PairSlots : get_or_create_thread(p)
    \/ \E p \in PairSlots : list_archived(p, TRUE)
    \/ \E p \in PairSlots, t \in PairThreadIds : create_thread(p, t)
    \/ \E p \in PairSlots : thread_send(p, TRUE)
    \/ \E p \in PairSlots : wait_returns(p)
    \/ \E p \in PairSlots : wait_times_out(p)
    \/ \E p \in PairSlots : allow(p)
    \/ \E p \in PairSlots : deny(p)
    \/ \E p \in PairSlots : allow_all(p)
    \/ \E p \in PairSlots, text \in ReplyTexts : on_submit(p, text)
    \/ \E p \in PairSlots : view_stop(p)
    \/ \E p \in PairSlots : on_timeout(p)
    \/ \E p \in PairSlots : forget(p)

SpecPair == Init /\ [][NextPair]_vars

\* --------------------------------------- two requests, two request_ids

\* The request_id the hook draws for the call in slot p: uuid4 gives every
\* call its own.
RequestIdOf(p) == IF p = 1 THEN "r1" ELSE "r2"

\* A well-formed POST /approve for the approval buttons with a request_id of
\* its own.
ApproveDistinct(p) ==
    \E sid \in SessionIds, title \in Titles :
       handle_approval(p, Object, RequestIdOf(p), sid, "Bash", "", title, 1)

\* Two POST /approve with distinct request_ids side by side, in one session
\* or in two, while the channel answers every call.
NextDistinct ==
    \/ on_ready
    \/ \E p \in PairSlots : ApproveDistinct(p)
    \/ \E p \in PairSlots : channel_lookup(p, TRUE)
    \/ \E p \in PairSlots : get_or_create_thread(p)
    \/ \E p \in PairSlots : list_archived(p, TRUE)
    \/ \E p \in PairSlots, t \in PairThreadIds : create_thread(p, t)
    \/ \E p \in PairSlots : thread_send(p, TRUE)
    \/ \E p \in PairSlots : wait_returns(p)
    \/ \E p \in PairSlots : wait_times_out(p)
    \/ \E p \in PairSlots : allow(p)
    \/ \E p \in PairSlots : deny(p)
    \/ \E p \in PairSlots : allow_all(p)
    \/ \E p \in PairSlots, text \in ReplyTexts : on_submit(p, text)
    \/ \E p \in PairSlots : view_stop(p)
    \/ \E p \in PairSlots : on_timeout(p)
    \/ \E p \in PairSlots : forget(p)

SpecDistinct == Init /\ [][NextDistinct]_vars

\* ------------------------------------------- two sessions, one title

\* A well-formed POST /approve of one of two sessions that derive the same
\* title.
ApproveSession(p) ==
    \E sid \in DistinctSessionIds, title \in Titles :
       handle_approval(p, Object, "r1", sid, "Bash", "", title, 1)

\* A well-formed POST /notify-stop without tmux_pane of one of the two
\* sessions.
StopSession(p) ==
    \E sid \in DistinctSessionIds, title \in Titles :
       handle_stop(p, Object, sid, "", title)

\* Two sessions of one project: POST /approve and POST /notify-stop side by
\* side while the channel answers every call.
NextSessions ==
    \/ on_ready
    \/ \E p \in ApprovalSlots : ApproveSession(p)
    \/ \E p \in StopSlots : StopSession(p)
    \/ \E p \in ApprovalSlots \cup StopSlots : channel_lookup(p, TRUE)
    \/ \E p \in ApprovalSlots \cup StopSlots : get_or_create_thread(p)
    \/ \E p \in ApprovalSlots \cup StopSlots : unarchive_bound(p, TRUE)
    \/ \E p \in ApprovalSlots \cup StopSlots : list_archived(p, TRUE)
    \/ \E p \in ApprovalSlots \cup StopSlots : unarchive_found(p, TRUE)
    \/ \E p \in ApprovalSlots \cup StopSlots, t \in ThreadIds :
          create_thread(p, t)
    \/ \E p \in ApprovalSlots \cup StopSlots : thread_send(p, TRUE)
    \/ \E p \in StopSlots : archive_thread(p, TRUE)
    \/ \E p \in ApprovalSlots : wait_returns(p)
    \/ \E p \in ApprovalSlots : wait_times_out(p)
    \/ \E p \in ApprovalSlots : allow(p)
    \/ \E p \in ApprovalSlots \cup StopSlots : forget(p)

SpecSessions == Init /\ [][NextSessions]_vars

\* ------------------------------------------------- multi-question sets

\* len(questions) of the multi-question sets: from two questions up to one
\* more than the view has rows for dropdowns.
MaxQuestions == 5
AskCounts == 2 .. MaxQuestions

\* A well-formed POST /approve of AskUserQuestion with several questions and
\* no tmux pane.
ApproveAsk(p) ==
    \E qn \in AskCounts, title \in Titles :
       handle_approval(p, Object, "r1", "", "AskUserQuestion", "", title, qn)

\* One multi-question request at a time: the human selects in the dropdowns,
\* presses Submit or replies with Other; the timers run.
NextAsk ==
    \/ on_ready
    \/ \E p \in ApprovalSlots : ApproveAsk(p)
    \/ \E p \in ApprovalSlots : channel_lookup(p, TRUE)
    \/ \E p \in ApprovalSlots : get_or_create_thread(p)
    \/ \E p \in ApprovalSlots : list_archived(p, TRUE)
    \/ \E p \in ApprovalSlots, t \in ThreadIds : create_thread(p, t)
    \/ \E p \in ApprovalSlots : thread_send(p, TRUE)
    \/ \E p \in ApprovalSlots, qi \in 1 .. MaxDropdowns :
          select_callback(p, qi)
    \/ \E p \in ApprovalSlots : submit_callback(p)
    \/ \E p \in ApprovalSlots, text \in ReplyTexts : on_submit(p, text)
    \/ \E p \in ApprovalSlots : view_stop(p)
    \/ \E p \in ApprovalSlots : on_timeout(p)
    \/ \E p \in ApprovalSlots : wait_returns(p)
    \/ \E p \in ApprovalSlots : wait_times_out(p)
    \/ \E p \in ApprovalSlots : forget(p)

SpecAsk == Init /\ [][NextAsk]_vars

\* ------------------------------------------------ one handler at a time

\* No handler is in flight.
Quiet == \A q \in Procs : call[q].pc \in {"idle", "done"}

\* A well-formed POST /approve sent when every request before it has been
\* answered.
ApproveInTurn(p) ==
    /\ Quiet
    /\ \E rid \in RequestIds \ {""}, sid \in SessionIds,
          title \in ResolveTitles :
          handle_approval(p, Object, rid, sid, "Bash", "", title, 1)

\* A well-formed POST /notify-stop sent when every request before it has
\* been answered.
StopInTurn(p) ==
    /\ Quiet
    /\ \E sid \in SessionIds, pane \in Panes, title \in ResolveTitles :
          handle_stop(p, Object, sid, pane, title)

\* POST /approve and POST /notify-stop one after the other.  Sessions come
\* with and without a title, the channel answers or raises, Discord archives
\* idle threads.
NextResolve ==
    \/ on_ready
    \/ \E p \in ApprovalSlots : ApproveInTurn(p)
    \/ \E p \in StopSlots : StopInTurn(p)
    \/ \E p \in ApprovalSlots \cup StopSlots : channel_lookup(p, TRUE)
    \/ \E p \in ApprovalSlots \cup StopSlots : get_or_create_thread(p)
    \/ \E p \in ApprovalSlots \cup StopSlots, ok \in BOOLEAN :
          unarchive_bound(p, ok)
    \/ \E p \in ApprovalSlots \cup StopSlots, ok \in BOOLEAN :
          list_archived(p, ok)
    \/ \E p \in ApprovalSlots \cup StopSlots, ok \in BOOLEAN :
          unarchive_found(p, ok)
    \/ \E p \in ApprovalSlots \cup StopSlots,
          t \in NamedThreadIds \cup {NoThread} : create_thread(p, t)
    \/ \E p \in ApprovalSlots \cup StopSlots, ok \in BOOLEAN :
          thread_send(p, ok)
    \/ \E p \in StopSlots, ok \in BOOLEAN : archive_thread(p, ok)
    \/ \E p \in ApprovalSlots : wait_times_out(p)
    \/ \E t \in NamedThreadIds : auto_archive(t)
    \/ \E p \in ApprovalSlots \cup StopSlots : forget(p)

SpecResolve == Init /\ [][NextResolve]_vars

\* ------------------------------------------------------------- scheduling

\* One POST /approve and nothing else.
NextApprove ==
    \/ on_ready
    \/ \E p \in ApprovalSlots : Approve(p)
    \/ \E p \in ApprovalSlots : HandlerStep(p)
    \/ \E p \in ApprovalSlots : ViewStep(p)
    \/ \E t \in ThreadIds : auto_archive(t)
    \/ \E p \in ApprovalSlots : forget(p)

\* The event loop runs every task that can run, a call to the channel returns
\* or raises, a timer that was started fires.  Nothing makes the gateway
\* connect (on_ready), a human act, or a client send a request.
Fairness == \A p \in ApprovalSlots : WF_vars(HandlerStep(p))

FairSpec == Init /\ [][NextApprove]_vars /\ Fairness

\* ------------------------------------------------ the PreToolUse hook script

\* A shell command is a sequence of words written with one blank between
\* them; ";" is one of the separators the classifier splits on.
MaxWords == 4
Words == {"git", "reset", "--hard", "-q", "rm", "sudo", "tracked.txt",
          "untracked.txt", ";"}
Commands == UNION {[1 .. n -> Words] : n \in 0 .. MaxWords}

\* re.split(r"\|\||&&|;|\||\n", command)
Separators == {"||", "&&", ";", "|", "\n"}

\* for part in parts: the parts that are not blank.
IsPart(cmd, i, j) ==
    /\ i <= j
    /\ \A k \in i .. j : cmd[k] \notin Separators
    /\ (i = 1 \/ cmd[i - 1] \in Separators)
    /\ (j = Len(cmd) \/ cmd[j + 1] \in Separators)
PartsFirst(cmd) ==
    {SubSeq(cmd, 1, j) : j \in {k \in 1 .. Len(cmd) : IsPart(cmd, 1, k)}}
Parts(cmd) ==
    {SubSeq(cmd, x[1], x[2]) :
        x \in {y \in (1 .. Len(cmd)) \X (1 .. Len(cmd)) :
                  IsPart(cmd, y[1], y[2])}}

\* DESTRUCTIVE_GIT_PATTERNS, read on the words of a part: the word a pattern
\* starts in ends with "git", the words it names follow one another.
GitWords == {"git"}
GitThen(seg, i, sub) ==
    i + 1 <= Len(seg) /\ seg[i] \in GitWords /\ seg[i + 1] = sub
GitThenLater(seg, i, sub, flags) ==
    /\ GitThen(seg, i, sub)
    /\ \E j \in (i + 2) .. Len(seg) : seg[j] \in flags
DESTRUCTIVE_GIT_PATTERNS(seg) ==
    \E i \in 1 .. Len(seg) :
        \/ GitThen(seg, i, "clean")
        \/ GitThen(seg, i, "reset") /\ i + 2 <= Len(seg)
              /\ seg[i + 2] = "--hard"
        \/ GitThenLater(seg, i, "push", {"--force", "--force-with-lease"})
        \/ GitThenLater(seg, i, "push", {"-f"})
        \/ GitThenLater(seg, i, "branch", {"-d", "-D"})
        \/ GitThen(seg, i, "checkout") /\ i + 3 <= Len(seg)
              /\ seg[i + 2] = "--"
        \/ GitThen(seg, i, "restore") /\ i + 2 <= Len(seg)
              /\ seg[i + 2] # "--staged"

DESTRUCTIVE_COMMANDS == {"rm", "rmdir", "shred", "unlink"}

\* os.path.basename of a word.
Basename(w) ==
    CASE w = "/bin/rm" -> "rm"
      [] w = "/usr/bin/unlink" -> "unlink"
      [] w = "/etc/hosts" -> "hosts"
      [] w = "../outside.txt" -> "outside.txt"
      [] w = "$HOME/x" -> "x"
      [] OTHER -> w

\* The words the classifier steps over before the command name: VAR=value
\* and sudo.  X='a and b' are the two words of X='a b'; X=a b and X=a $..
\* are tokens shlex.split makes of a quoted assignment.  The words that
\* start with "-".
Assignments == {"X=1", "X='a", "X=a b", "X=a $.."}
Skipped(w) == w \in Assignments \/ w = "sudo"
FlagWords == {"--hard", "-q", "-f", "-rf", "--", "-weirdname"}

\* idx after the while loop; 0 when every word was stepped over.
BaseIndex(seg) ==
    IF \A i \in 1 .. Len(seg) : Skipped(seg[i]) THEN 0
    ELSE CHOOSE i \in 1 .. Len(seg) :
            ~Skipped(seg[i]) /\ \A k \in 1 .. (i - 1) : Skipped(seg[k])

\* _parse_rm_targets: the words after the command name that are no flags;
\* after a first "--" every word is a target.
RECURSIVE CollectTargets(_, _, _)
CollectTargets(seg, idx, past_separator) ==
    IF idx > Len(seg) THEN <<>>
    ELSE IF seg[idx] = "--" /\ ~past_separator
    THEN CollectTargets(seg, idx + 1, TRUE)
    ELSE IF ~past_separator /\ seg[idx] \in FlagWords
    THEN CollectTargets(seg, idx + 1, past_separator)
    ELSE <<seg[idx]>> \o CollectTargets(seg, idx + 1, past_separator)

\* shlex.split(part): a word that opens a quote starts a token that runs to
\* the next such word, blanks included; the token is "open .." or, with a
\* "$" in it, "open $.."; with a "=" in it, it is "X=a b" or "X=a $..".  A
\* quote left open at the end is a ValueError.
QuoteWords == {"'open", "X='a", "b'"}
ValueError == "ValueError"
Quoted(dollar, equals) ==
    IF equals THEN (IF dollar THEN "X=a $.." ELSE "X=a b")
    ELSE (IF dollar THEN "open $.." ELSE "open ..")
RECURSIVE shlex_split(_, _, _, _, _)
shlex_split(seg, idx, quoted, dollar, equals) ==
    IF idx > Len(seg) THEN (IF quoted THEN <<ValueError>> ELSE <<>>)
    ELSE IF seg[idx] \in QuoteWords
    THEN IF quoted
         THEN <<Quoted(dollar, equals \/ seg[idx] \in Assignments)>>
                  \o shlex_split(seg, idx + 1, FALSE, FALSE, FALSE)
         ELSE shlex_split(seg, idx + 1, TRUE, FALSE,
                          seg[idx] \in Assignments)
    ELSE IF quoted
    THEN shlex_split(seg, idx + 1, TRUE, dollar \/ seg[idx] = "$HOME/x",
                     equals \/ seg[idx] \in Assignments)
    ELSE <<seg[idx]>> \o shlex_split(seg, idx + 1, FALSE, FALSE, FALSE)
Tokens(seg) == shlex_split(seg, 1, FALSE, FALSE, FALSE)
Unparsed(seg) ==
    Len(Tokens(seg)) > 0 /\ Tokens(seg)[Len(Tokens(seg))] = ValueError

parse_rm_targets_no_flags(seg) ==
    SelectSeq(Tail(seg), LAMBDA w : w \notin FlagWords)
parse_rm_targets(seg) ==
    IF Unparsed(seg) THEN <<>>
    ELSE CollectTargets(Tokens(seg), BaseIndex(Tokens(seg)) + 1, FALSE)

\* The work tree the hook runs in: tracked.txt is in the index,
\* untracked.txt and -weirdname are files that are not, emptydir is a
\* directory with nothing in it, gone.txt does not exist, ../outside.txt
\* and /etc/hosts are files outside the repository.
ExpansionPaths == {"$HOME/x", "open $..", "X=a $.."}
AbsolutePaths == {"/etc/hosts"}
OutsidePaths == {"/etc/hosts", "../outside.txt"}
UntrackedPaths == {"untracked.txt", "-weirdname"}
AbsentPaths == {"gone.txt"}
TrackedPaths == {"tracked.txt"}
EmptyDirs == {"emptydir"}
ExistingPaths ==
    TrackedPaths \cup UntrackedPaths \cup OutsidePaths \cup EmptyDirs

\* git ls-files --others path: git exits non-zero for a path outside the
\* repository and for a word it reads as an unknown switch; -- and -f are
\* no pathspec, and every untracked file is listed; else the untracked
\* files under the path are listed.
UnknownSwitches == FlagWords \ {"--", "-f"}
ExitNonZero == "non-zero"
ListsOthers == "lists"
ListsNothing == "nothing"
ls_files_others(path) ==
    IF path \in OutsidePaths \cup UnknownSwitches THEN ExitNonZero
    ELSE IF path \in UntrackedPaths \cup {"--", "-f"} THEN ListsOthers
    ELSE ListsNothing

\* The states of the repository: no work tree, a work tree, a work tree
\* whose root git does not tell, a work tree in which ls-files raises.
WorkTree == [in_repo |-> TRUE, toplevel |-> TRUE, ls_files |-> "runs"]
Repos ==
    {NoRepo, WorkTree, [WorkTree EXCEPT !.toplevel = FALSE],
     [WorkTree EXCEPT !.ls_files = "raises"]}

\* _all_git_recoverable: the body of for path in paths.
PathRecoverable(path, repo) ==
    /\ path \notin ExpansionPaths
    /\ ~(path \in AbsolutePaths /\ repo.toplevel /\ path \in OutsidePaths)
    /\ repo.ls_files = "runs"
    /\ ls_files_others(path) # ListsOthers

\* _all_git_recoverable
all_git_recoverable(paths, repo) ==
    /\ repo.in_repo
    /\ paths # <<>>
    /\ \A i \in 1 .. Len(paths) : PathRecoverable(paths[i], repo)

\* _needs_discord_approval_bash
needs_discord_approval_bash(cmd, repo) ==
    \E seg \in Parts(cmd) :
        \/ DESTRUCTIVE_GIT_PATTERNS(seg)
        \/ /\ BaseIndex(seg) # 0
           /\ Basename(seg[BaseIndex(seg)]) \in DESTRUCTIVE_COMMANDS
           /\ ~all_git_recoverable(parse_rm_targets(seg), repo)

\* stdin of the hook: blank, or as the bodies of a POST.  session_id and
\* tool_input come as the type the hook expects or as another one.
Blank == "blank"
HookTools == {"AskUserQuestion", "Bash", "Write"}
Envelopes ==
    {[NoEnvelope EXCEPT !.stdin = k] : k \in {NotJson, NotObject, Blank}}
    \cup {[NoEnvelope EXCEPT !.stdin = Object, !.tool = tool,
                             !.session_id = "int"] : tool \in HookTools}
    \cup {[NoEnvelope EXCEPT !.stdin = Object, !.tool = tool,
                             !.session_id = "str", !.tool_input = "dict",
                             !.tmux = tmux] :
             tool \in HookTools \ {"Bash"}, tmux \in BOOLEAN}
    \cup {[NoEnvelope EXCEPT !.stdin = Object, !.tool = "Bash",
                             !.session_id = "str", !.tool_input = "list"]}
    \cup {[NoEnvelope EXCEPT !.stdin = Object, !.tool = "Bash",
                             !.session_id = "str", !.tool_input = "dict",
                             !.command = cmd, !.tmux = tmux,
                             !.repo = repo] :
             cmd \in Commands, tmux \in BOOLEAN,
             repo \in {NoRepo, WorkTree}}

\* What urlopen and json.loads make of the POST /approve of the hook.
Replies ==
    {[NoReply EXCEPT !.kind = k] :
        k \in {"URLError", "HTTPError", "timeout", NotJson, NotObject}}
    \cup {[kind |-> Object, decision |-> d, reason |-> r] :
             d \in {"allow", "deny", "ask", NoneVal},
             r \in {NoneVal, "", "why"}}

\* print(json.dumps(...)) and the ends of main.
Printed(d, r) == [decision |-> d, reason |-> r]
Ended(e, r, out) ==
    [hook EXCEPT !.pc = "done", !.env = e, !.reply = r, !.out = out]
Uncaught(e, r) ==
    [hook EXCEPT !.pc = "raised", !.env = e, !.reply = r, !.out = NoOutput]
Forwarding(e) == [hook EXCEPT !.pc = "forwarding", !.env = e]

needs_discord_first_run(e) ==
    /\ hook.last = NoRun
    /\ \/ e.tool = "AskUserQuestion"
       \/ e.tool = "Bash" /\ needs_discord_approval_bash(e.command, e.repo)

needs_discord_bash_only(e) ==
    e.tool = "Bash" /\ needs_discord_approval_bash(e.command, e.repo)

\* needs_discord
needs_discord(e) ==
    \/ e.tool = "AskUserQuestion"
    \/ e.tool = "Bash" /\ needs_discord_approval_bash(e.command, e.repo)

brokerVars == <<bot_ready, pending, sessions_with_approvals,
                auto_allow_sessions, session_threads, threads, call, req,
                view, interaction_reply, humanWrote, closed>>

\* main, from reading stdin to the POST /approve or to its end.
hook_main(e) ==
    /\ hook.pc = "idle"
    /\ hook' =
          IF e.stdin = NotJson THEN Ended(e, NoReply, NoOutput)
          ELSE IF e.stdin = NotObject THEN Uncaught(e, NoReply)
          ELSE IF e.stdin = Blank
          THEN Ended(e, NoReply, Printed("allow", NoneVal))
          ELSE IF e.session_id # "str" THEN Uncaught(e, NoReply)
          ELSE IF e.tool = "Bash" /\ e.tool_input # "dict"
          THEN Uncaught(e, NoReply)
          ELSE IF ~needs_discord(e)
          THEN Ended(e, NoReply, Printed("allow", NoneVal))
          ELSE IF ~e.tmux THEN Ended(e, NoReply, NoOutput)
          ELSE Forwarding(e)
    /\ UNCHANGED brokerVars

HookOutputAllow(r) == Printed("allow", NoneVal)

\* decision = result.get("decision") and the output that follows it.
HookOutput(r) ==
    IF r.decision = "allow" THEN Printed("allow", NoneVal)
    ELSE IF r.decision = "deny"
    THEN Printed("deny", IF r.reason = "" THEN NoneVal ELSE r.reason)
    ELSE NoOutput

\* main, from the answer of urlopen to its end.
hook_response(r) ==
    /\ hook.pc = "forwarding"
    /\ hook' =
          IF r.kind \in {"URLError", "HTTPError", "timeout", NotJson}
          THEN Ended(hook.env, r, NoOutput)
          ELSE IF r.kind = NotObject THEN Uncaught(hook.env, r)
          ELSE Ended(hook.env, r, HookOutput(r))
    /\ UNCHANGED brokerVars

\* The hook script is started on an envelope.
hook_run == hook.pc = "idle" /\ \E e \in Envelopes : hook_main(e)

\* One run of the hook script.
NextHook ==
    \/ hook_run
    \/ \E r \in Replies : hook_response(r)

SpecHook == Init /\ [][NextHook]_vars

\* Compound commands: at most MaxSegments parts with one separator between
\* two of them.
MaxSegments == 3
Segments ==
    {<<"ls">>, <<"rm", "tracked.txt">>, <<"rm", "untracked.txt">>,
     <<"git", "reset", "--hard">>}
RECURSIVE Compounds(_)
Compounds(n) ==
    IF n <= 1 THEN Segments
    ELSE Compounds(n - 1)
            \cup {c \o <<sep>> \o seg :
                     c \in Compounds(n - 1), sep \in Separators,
                     seg \in Segments}
BashEnvelopes(cmds, repos) ==
    {[NoEnvelope EXCEPT !.stdin = Object, !.tool = "Bash",
                        !.session_id = "str", !.tool_input = "dict",
                        !.command = cmd, !.tmux = tmux, !.repo = repo] :
        cmd \in cmds, tmux \in BOOLEAN, repo \in repos}

\* The hook script is started on a compound command.
hook_compound ==
    /\ hook.pc = "idle"
    /\ \E e \in BashEnvelopes(Compounds(MaxSegments), {NoRepo, WorkTree}) :
          hook_main(e)

NextCompound ==
    \/ hook_compound
    \/ \E r \in Replies : hook_response(r)

SpecCompound == Init /\ [][NextCompound]_vars

\* Deletions: rm and at most MaxTargets words after it.
MaxTargets == 3
TargetWords ==
    {"--", "-rf", "-weirdname", "tracked.txt", "untracked.txt", "gone.txt",
     "emptydir", "../outside.txt", "/etc/hosts", "$HOME/x", "'open"}
Deletions ==
    {<<"rm">> \o a : a \in UNION {[1 .. n -> TargetWords] : n \in 0 .. MaxTargets}}

\* The hook script is started on a deletion, in any state of the repository.
hook_delete ==
    /\ hook.pc = "idle"
    /\ \E e \in BashEnvelopes(Deletions, Repos) : hook_main(e)

NextDelete ==
    \/ hook_delete
    \/ \E r \in Replies : hook_response(r)

SpecDelete == Init /\ [][NextDelete]_vars

\* Deletions behind prefixes: at most MaxPrefixes assignments and sudo, the
\* command's name with or without its directory, one target.
MaxPrefixes == 3
Prefixes == {<<"X=1">>, <<"sudo">>, <<"X='a", "b'">>}
RECURSIVE Prefixed(_)
Prefixed(n) ==
    IF n = 0 THEN {<<>>}
    ELSE Prefixed(n - 1)
            \cup {pre \o c : c \in Prefixed(n - 1), pre \in Prefixes}
DeletionNames == {"rm", "/bin/rm", "unlink", "/usr/bin/unlink"}
PrefixedDeletions ==
    {pre \o <<name, target>> :
        pre \in Prefixed(MaxPrefixes), name \in DeletionNames,
        target \in {"tracked.txt", "untracked.txt"}}

\* The hook script is started on a deletion behind prefixes.
hook_prefixed ==
    /\ hook.pc = "idle"
    /\ \E e \in BashEnvelopes(PrefixedDeletions, {NoRepo, WorkTree}) :
          hook_main(e)

NextPrefixed ==
    \/ hook_prefixed
    \/ \E r \in Replies : hook_response(r)

SpecPrefixed == Init /\ [][NextPrefixed]_vars

\* What a run of the hook made of its envelope: it asked the broker, it
\* printed allow by itself, or it ended without output.
Verdict(h) ==
    IF h.pc = "forwarding" \/ h.reply.kind # NoneVal THEN "NEEDS_APPROVAL"
    ELSE IF h.pc = "done" /\ h.out.decision = "allow" THEN "AUTO_ALLOW"
    ELSE IF h.pc = "done" THEN "PASS_THROUGH"
    ELSE NoneVal

\* The script has ended; the agent starts it anew for its next tool call.
\* Nothing of the run is kept but the log.
hook_exit ==
    /\ hook.pc \in {"done", "raised"}
    /\ hook' = [HookIdle EXCEPT !.last = [env |-> hook.env,
                                          verdict |-> Verdict(hook)]]
    /\ UNCHANGED brokerVars

\* The hook script is started on one of a few commands, again and again.
AgainCommands ==
    {<<"ls">>, <<"rm", "tracked.txt">>, <<"rm", "untracked.txt">>,
     <<"rm", "../outside.txt">>, <<"git", "reset", "--hard">>}
hook_again ==
    /\ hook.pc = "idle"
    /\ \E e \in BashEnvelopes(AgainCommands, Repos) : hook_main(e)

NextAgain ==
    \/ hook_again
    \/ \E r \in Replies : hook_response(r)
    \/ hook_exit

SpecAgain == Init /\ [][NextAgain]_vars

\* urlopen(req, timeout=600) of the hook, the grace the broker adds to
\* APPROVAL_TIMEOUT in wait_for, and the values APPROVAL_TIMEOUT is
\* configured with: whole minutes up to MaxMinutes.
HOOK_TIMEOUT == 600
Grace == 5
MaxMinutes == 10
ApprovalTimeouts == {60 * m : m \in 1 .. MaxMinutes}

\* The broker is started: APPROVAL_TIMEOUT is read from the environment.
broker_configured ==
    /\ hook.pc = "idle"
    /\ hook.timeout = 0
    /\ \E t \in ApprovalTimeouts : hook' = [hook EXCEPT !.timeout = t]
    /\ UNCHANGED brokerVars

\* The hook script is started on a request it may forward to that broker.
TimedEnvelopes ==
    {[NoEnvelope EXCEPT !.stdin = Object, !.tool = "AskUserQuestion",
                        !.session_id = "str", !.tool_input = "dict",
                        !.tmux = TRUE]}
    \cup BashEnvelopes({<<"git", "reset", "--hard">>,
                        <<"rm", "untracked.txt">>}, {WorkTree})
hook_post ==
    /\ hook.pc = "idle"
    /\ hook.timeout # 0
    /\ \E e \in TimedEnvelopes : hook_main(e)

\* The time at which wait_for of the broker raises TimeoutError, and the
\* earlier of the two timers.
BrokerDeadline == hook.timeout + Grace
NextDeadline ==
    IF BrokerDeadline < HOOK_TIMEOUT THEN BrokerDeadline ELSE HOOK_TIMEOUT

\* Nobody answers: time passes up to the first timer that is due.
time_passes ==
    /\ hook.pc = "forwarding"
    /\ hook.waited < NextDeadline
    /\ hook' = [hook EXCEPT !.waited = NextDeadline]
    /\ UNCHANGED brokerVars

\* A human answers before the broker times out, and the broker answers the
\* hook.
human_answers ==
    /\ hook.waited < BrokerDeadline
    /\ \E r \in {x \in Replies : x.kind = Object /\ x.decision # NoneVal} :
          hook_response(r)

\* wait_for raises TimeoutError; the broker answers deny.
BrokerTimedOut ==
    [kind |-> Object, decision |-> "deny",
     reason |-> "Timed out waiting for approval"]
broker_times_out ==
    /\ hook.waited >= BrokerDeadline
    /\ hook_response(BrokerTimedOut)

\* urlopen raises a timeout: the hook gives up.
urlopen_times_out ==
    /\ hook.waited >= HOOK_TIMEOUT
    /\ hook_response([NoReply EXCEPT !.kind = "timeout"])

NextTimeout ==
    \/ broker_configured
    \/ hook_post
    \/ time_passes
    \/ human_answers
    \/ broker_times_out
    \/ urlopen_times_out

SpecTimeout == Init /\ [][NextTimeout]_vars

\* ------------------------------------------------------------- properties

\* C1: once the signal of an awaited request is set, its decision and reason
\* stay as the first resolution wrote them until handle_approval returns,
\* and the decision and reason handle_approval returns are those.
C1_FirstResolutionStands ==
    [][\A p \in Procs :
          (call[p].pc = "waiting" /\ req[p].event) =>
             /\ req'[p].decision = req[p].decision
             /\ req'[p].reason = req[p].reason
             /\ (call'[p].pc = "done" /\ call'[p].response.status = 200) =>
                   call'[p].response = ResultOf(req[p])]_vars

\* C2: of two resolutions of one request only the first is recorded: an
\* interaction that is accepted as a resolution writes into a request whose
\* signal was not set, and a request whose signal is set is written by no
\* one while it is registered.
C2_OneResolutionRecorded ==
    [][interaction_reply' = "ok" =>
          \A q \in Procs : req'[q] # req[q] => ~req[q].event]_vars

\* C3: every POST /approve that was accepted (its PendingRequest registered)
\* is answered in the end, whatever the human and the channel do.
C3_SubmitReturns ==
    \A p \in ApprovalSlots :
        (call[p].kind = "approve" /\ call[p].pc = "ready") ~>
            (call[p].pc = "done")

TimedOutReasons ==
    {"Timed out waiting for approval", "Timed out waiting for response"}

\* C4: when the wait of handle_approval ends and no human resolution was
\* written into its request, or when it ends by the timer of wait_for, the
\* response is 200 with decision deny and a timed-out reason: never an error,
\* never allow.
C4_TimeoutIsDeny ==
    [][\A p \in Procs :
          /\ (wait_returns(p) /\ ~humanWrote[p]) =>
                /\ call'[p].response.status = 200
                /\ call'[p].response.decision = "deny"
                /\ call'[p].response.reason \in TimedOutReasons
          /\ wait_times_out(p) =>
                call'[p].response =
                    Decided("deny", "Timed out waiting for approval")]_vars

\* A posted request that no human resolved has been answered deny, timed out.
C4_Witness ==
    \E p \in Procs :
        /\ call[p].kind = "approve" /\ call[p].pc = "done"
        /\ view[p].posted /\ ~humanWrote[p]
        /\ call[p].response.decision = "deny"
        /\ call[p].response.reason \in TimedOutReasons

\* C5: a well-formed POST /approve (it parses and carries a request_id) for
\* a session whose escalation flag is set is answered allow in its first
\* step, for every tool: nothing is registered, no request is created, no
\* view is sent and no thread is touched.
C5_EscalatedAllowsAtOnce ==
    [][\A p \in Procs :
          (/\ call[p].pc = "idle" /\ call'[p].pc # "idle"
           /\ call'[p].kind \in {"approve", "tmuxask"}
           /\ call'[p].rid # ""
           /\ call'[p].sid \in auto_allow_sessions) =>
             /\ call'[p].pc = "done"
             /\ call'[p].response = Decided("allow", NoneVal)
             /\ UNCHANGED <<pending, req, view, threads, session_threads>>]_vars

\* A submit of an escalated session has been answered allow with nothing
\* registered and nothing sent.
C5_Witness ==
    \E p \in Procs :
        /\ call[p].kind = "approve" /\ call[p].pc = "done"
        /\ call[p].sid \in auto_allow_sessions
        /\ call[p].response = Decided("allow", NoneVal)
        /\ ~view[p].posted /\ ~req[p].event
        /\ ~Registered(call[p].rid)

\* C6 (as amended): Allow All on a view whose request_id is registered writes
\* allow into the registered request and sets its signal; the view's
\* session_id is added to the escalation set when it is not empty, and the
\* escalation set is left as it was when it is empty.
C6_AllowAllEscalates ==
    [][\A p \in Procs :
          (allow_all(p) /\ Registered(call[p].rid)) =>
             /\ req'[Target(p)].decision = "allow"
             /\ req'[Target(p)].event
             /\ call[p].sid # "" => call[p].sid \in auto_allow_sessions'
             /\ call[p].sid = "" => UNCHANGED auto_allow_sessions]_vars

\* Allow All has resolved the request of an escalated session as allow.
C6_Witness ==
    \E p \in Procs :
        /\ call[p].kind = "approve" /\ call[p].pc = "waiting"
        /\ call[p].sid \in auto_allow_sessions
        /\ req[p].decision = "allow" /\ req[p].event /\ humanWrote[p]
        /\ interaction_reply = "ok"

\* C6 (as written): Allow All on a registered request resolves it as allow
\* and sets an escalation flag, whatever session_id it was submitted with.
C6_AllowAllAnySession ==
    [][\A p \in Procs :
          (allow_all(p) /\ Registered(call[p].rid)) =>
             /\ req'[Target(p)].decision = "allow"
             /\ call[p].sid \in auto_allow_sessions']_vars

\* The resolutions a human can send from the message of slot p.
Resolution(p) ==
    \/ allow(p)
    \/ deny(p)
    \/ allow_all(p)
    \/ \E text \in ReplyTexts : on_submit(p, text)
    \/ \E label \in OptionLabels : button_callback(p, label)
    \/ submit_callback(p)

\* C7: a resolution sent while the registry holds no entry under the view's
\* request_id is answered "expired" and changes neither the registry, nor
\* any request, nor the escalation set.
C7_ExpiredChangesNothing ==
    [][\A p \in Procs :
          (Resolution(p) /\ ~Registered(call[p].rid)) =>
             /\ interaction_reply' = "expired"
             /\ UNCHANGED <<pending, req, auto_allow_sessions, call>>]_vars

\* A resolution has been answered "expired" after its submit had returned.
C7_Witness ==
    /\ interaction_reply = "expired"
    /\ \E p \in Procs :
          /\ call[p].kind = "approve" /\ call[p].pc = "done"
          /\ call[p].response.status = 200
          /\ view[p].posted /\ ~Registered(call[p].rid)

\* C8: once handle_approval has answered, with a decision or an error, the
\* registry holds no entry under its request_id.
C8_NothingOutlivesSubmit ==
    \A p \in Procs :
        (call[p].kind = "approve" /\ call[p].pc = "done"
              /\ call[p].rid # "") =>
            ~Registered(call[p].rid)

\* handle_approval in slot p has created a PendingRequest and awaits it.
Awaits(p) ==
    /\ call[p].kind = "approve"
    /\ call[p].pc \notin {"idle", "done"}

\* C9: no two handle_approval in flight await PendingRequests created under
\* one request_id.
C9_OneLivePerRequestId ==
    \A p, q \in Procs :
        (p # q /\ Awaits(p) /\ Awaits(q)) => call[p].rid # call[q].rid

\* C10: when handle_stop ends for an envelope that parsed and carries no
\* tmux_pane, the session has no thread binding, no approval flag and no
\* escalation flag, and the thread it was bound to is archived.
C10_StopClearsSession ==
    [][\A p \in StopSlots :
          (/\ call[p].kind = "stop" /\ call[p].pane = ""
           /\ call[p].pc # "done" /\ call'[p].pc = "done") =>
             /\ session_threads'[call[p].sid] = NoThread
             /\ call[p].sid \notin sessions_with_approvals'
             /\ call[p].sid \notin auto_allow_sessions'
             /\ \A t \in 1 .. Len(threads) :
                   session_threads[call[p].sid] = t => threads'[t].archived]_vars

\* C11 (as amended): no step of handle_stop for an envelope that carries a
\* tmux_pane changes the approval flags or the escalation flags, removes the
\* session's thread binding or archives a thread; it may bind the session to
\* the thread it resolves.
C11_PaneStopKeepsSession ==
    [][\A p \in StopSlots :
          (/\ call'[p].kind = "stop" /\ call'[p].pane # ""
           /\ call'[p] # call[p]) =>
             /\ UNCHANGED <<sessions_with_approvals, auto_allow_sessions>>
             /\ session_threads[call'[p].sid] # NoThread =>
                   session_threads'[call'[p].sid] # NoThread
             /\ Len(threads') >= Len(threads)
             /\ \A t \in 1 .. Len(threads) :
                   threads'[t].archived => threads[t].archived]_vars

\* handle_stop has answered {status: ok} for an envelope with a pane while the
\* session is escalated, flagged and bound to an open thread.
C11_Witness ==
    \E p \in StopSlots :
        /\ call[p].kind = "stop" /\ call[p].pane # "" /\ call[p].pc = "done"
        /\ call[p].response = StatusOk
        /\ call[p].sid \in auto_allow_sessions
        /\ call[p].sid \in sessions_with_approvals
        /\ session_threads[call[p].sid] # NoThread
        /\ ~threads[session_threads[call[p].sid]].archived
        /\ \A a \in ApprovalSlots : call[a].pc = "idle"

\* C11 (as written): no step of handle_stop for an envelope that carries a
\* tmux_pane changes the flags or the session's thread binding, or archives
\* a thread.
C11_PaneStopChangesNothing ==
    [][\A p \in StopSlots :
          (/\ call'[p].kind = "stop" /\ call'[p].pane # ""
           /\ call'[p] # call[p]) =>
             /\ UNCHANGED <<sessions_with_approvals, auto_allow_sessions,
                            session_threads>>
             /\ \A t \in 1 .. Len(threads) :
                   threads'[t].archived => threads[t].archived]_vars

\* C12: a well-formed POST /approve for a session that was closed by a POST
\* /notify-stop without tmux_pane, and that was neither submitted for nor
\* escalated since, is not answered at once: it registers its PendingRequest
\* and goes on to the channel.
C12_ReopenedLikeFirst ==
    [][\A p \in Procs :
          (/\ call[p].pc = "idle" /\ call'[p].kind = "approve"
           /\ call'[p].rid # "" /\ call'[p].sid \in closed) =>
             /\ call'[p].pc = "ready"
             /\ pending'[call'[p].rid] = p]_vars

\* The threads of a given name.
Named(ths, name) == {t \in 1 .. Len(ths) : ths[t].name = name}

\* handle_stop in slot q has closed session s under that title and answered.
ClosedUnder(q, s, title) ==
    /\ call[q].kind = "stop" /\ call[q].pane = "" /\ call[q].pc = "done"
    /\ call[q].response = StatusOk
    /\ call[q].sid = s /\ call[q].title = title
    /\ call[q].th # NoThread

C14_NoDuplicateThread ==
    \A t, u \in 1 .. Len(threads) :
        t # u => threads[t].name # threads[u].name

\* C15: a POST /approve whose body is not JSON, is no JSON object or carries
\* no request_id is answered 400 and changes nothing of the broker.
C15_MalformedIs400 ==
    [][\A p \in Procs :
          (/\ call[p].pc = "idle" /\ call'[p].kind = "approve"
           /\ call'[p].rid = "") =>
             /\ call'[p].response = HttpError(400)
             /\ UNCHANGED <<pending, sessions_with_approvals,
                            auto_allow_sessions, session_threads, threads,
                            req, view>>]_vars

\* C16: when handle_approval cannot resolve the channel it answers 500 in
\* that step, with no entry left under its request_id, no message sent and
\* no wait begun.
C16_NoChannelIs500 ==
    [][\A p \in Procs :
          (/\ call[p].kind = "approve" /\ call[p].pc = "ready"
           /\ call'[p].pc # "ready") =>
             \/ call'[p].pc = "thread"
             \/ /\ call'[p].pc = "done"
                /\ call'[p].response = HttpError(500)
                /\ ~(pending'[call[p].rid] # NoProc)
                /\ ~view'[p].posted
                /\ UNCHANGED <<req, threads, session_threads>>]_vars

\* handle_approval has answered 500 for a request it had registered, and the
\* registry holds nothing under its request_id.
C16_Witness ==
    \E p \in ApprovalSlots :
        /\ call[p].kind = "approve" /\ call[p].pc = "done"
        /\ call[p].rid # ""
        /\ call[p].response = HttpError(500)
        /\ ~Registered(call[p].rid)
        /\ ~view[p].posted /\ ~req[p].event

\* The hook has forwarded the request and urlopen has ended.
Answered == hook.pc \in {"done", "raised"} /\ hook.reply.kind # NoneVal

\* C17: for a request the hook forwarded, the hook prints allow exactly when
\* the broker answered an object with decision allow, prints deny exactly
\* when it answered one with decision deny, then with the broker's reason
\* when there is one; when the broker is unreachable, answers an HTTP error,
\* does not answer in time or answers another decision, the hook prints
\* nothing and ends normally.
C17_HookRelaysDecision ==
    Answered =>
        /\ hook.out.decision = "allow" <=>
              (hook.reply.kind = Object /\ hook.reply.decision = "allow")
        /\ hook.out.decision = "deny" <=>
              (hook.reply.kind = Object /\ hook.reply.decision = "deny")
        /\ hook.out.decision = "deny" =>
              hook.out.reason =
                  (IF hook.reply.reason = "" THEN NoneVal
                                             ELSE hook.reply.reason)
        /\ hook.out.decision = "allow" => hook.out.reason = NoneVal
        /\ (\/ hook.reply.kind \in {"URLError", "HTTPError", "timeout"}
            \/ /\ hook.reply.kind = Object
               /\ hook.reply.decision \notin {"allow", "deny"}) =>
              (hook.pc = "done" /\ hook.out = NoOutput)

\* The hook has printed the deny of the broker with its reason.
C17_Witness ==
    /\ hook.pc = "done"
    /\ hook.reply.kind = Object /\ hook.reply.decision = "deny"
    /\ hook.reply.reason = "why"
    /\ hook.out = Printed("deny", "why")

\* C18: the hook never ends with an exception that left main.
C18_HookNeverRaises == hook.pc # "raised"

\* The hook has printed allow without asking the broker.
ClassifiedAllow ==
    hook.pc = "done" /\ hook.reply.kind = NoneVal /\ hook.out.decision = "allow"

\* C19: the hook allows by itself only shell commands it has examined: no
\* other tool kind is allowed without the broker.
C19_UnknownToolForwarded ==
    ClassifiedAllow => (hook.env.stdin = Object /\ hook.env.tool = "Bash")

\* A part of the command is a git reset whose arguments are options, --hard
\* among them.
HardReset(cmd) ==
    \E seg \in Parts(cmd) :
        LET b == BaseIndex(seg)
        IN /\ b # 0 /\ b + 2 <= Len(seg)
           /\ seg[b] = "git" /\ seg[b + 1] = "reset"
           /\ \A k \in (b + 2) .. Len(seg) : seg[k] \in FlagWords
           /\ \E k \in (b + 2) .. Len(seg) : seg[k] = "--hard"

\* C20: a shell command with a hard reset in it is never allowed by the hook
\* itself, whatever the work tree.
C20_HardResetNeverAllowed ==
    (hook.env.tool = "Bash" /\ HardReset(hook.env.command)) =>
        ~ClassifiedAllow

\* A part taken by itself is a history-destroying operation, or a deletion
\* command whose targets, the words after its name, are not all recoverable.
Escalates(seg, repo) ==
    \/ DESTRUCTIVE_GIT_PATTERNS(seg)
    \/ /\ seg # <<>>
       /\ seg[1] \in DESTRUCTIVE_COMMANDS
       /\ ~all_git_recoverable(Tail(seg), repo)

\* The parts of a command from left to right, each from one separator to
\* the next: one of them escalates.
RECURSIVE SomePartEscalates(_, _)
SomePartEscalates(cmd, repo) ==
    LET seps == {k \in 1 .. Len(cmd) : cmd[k] \in Separators}
    IN IF seps = {} THEN Escalates(cmd, repo)
       ELSE LET k == CHOOSE x \in seps : \A y \in seps : x <= y
            IN \/ Escalates(SubSeq(cmd, 1, k - 1), repo)
               \/ SomePartEscalates(SubSeq(cmd, k + 1, Len(cmd)), repo)

\* C21: for a compound shell command the hook asks for approval exactly when
\* at least one part, taken by itself, is a history-destroying operation or
\* a deletion whose targets are not all recoverable; the parts before and
\* after it change nothing, and the hook allows the command by itself only
\* when no part escalates.
C21_AnySegmentEscalates ==
    (hook.pc # "idle" /\ hook.env.tool = "Bash") =>
        (ClassifiedAllow <=>
            ~SomePartEscalates(hook.env.command, hook.env.repo))

\* The hook forwards a command whose middle part deletes an untracked file
\* between two harmless parts.
C21_Witness ==
    /\ hook.pc = "forwarding"
    /\ hook.env.repo = WorkTree
    /\ hook.env.command = <<"ls", "&&", "rm", "untracked.txt", "|", "ls">>

\* The hook was started on a deletion; its targets as the hook reads them.
OnDeletion ==
    /\ hook.pc # "idle"
    /\ hook.env.tool = "Bash"
    /\ hook.env.command # <<>>
    /\ hook.env.command[1] \in DESTRUCTIVE_COMMANDS
DeletionTargets == parse_rm_targets(hook.env.command)
SomeTarget(paths) ==
    \E i \in 1 .. Len(DeletionTargets) : DeletionTargets[i] \in paths

\* C22: a deletion with a target that has content not under version control
\* is never allowed by the hook itself.
C22_UntrackedNeverAllowed ==
    (OnDeletion /\ SomeTarget(UntrackedPaths)) => ~ClassifiedAllow

\* A query of the repository about the targets fails: git rev-parse
\* --is-inside-work-tree does, git ls-files raises, or git ls-files exits
\* with a non-zero status for a target.
QueryFails ==
    \/ ~hook.env.repo.in_repo
    \/ hook.env.repo.ls_files = "raises"
    \/ \E i \in 1 .. Len(DeletionTargets) :
          ls_files_others(DeletionTargets[i]) = ExitNonZero

\* C23: a deletion is never allowed by the hook itself when its quoting
\* cannot be parsed, when a target has shell substitution syntax in it, when
\* no target can be extracted, or when a query of the repository fails for a
\* target.
C23_AmbiguityNeedsApproval ==
    (OnDeletion /\ (\/ Unparsed(hook.env.command)
                    \/ SomeTarget(ExpansionPaths)
                    \/ DeletionTargets = <<>>
                    \/ QueryFails)) => ~ClassifiedAllow

\* C24: a deletion with an existing target outside the repository is never
\* allowed by the hook itself, whether or not git tells the root of the
\* repository.
C24_OutsideNeverAllowed ==
    (OnDeletion /\ SomeTarget(OutsidePaths)) => ~ClassifiedAllow

\* C25: the hook allows a deletion by itself only if every target is
\* absent or tracked: a target that exists and is not tracked is never
\* taken for recoverable.
C25_AllowedOnlyAbsentOrTracked ==
    (OnDeletion /\ ClassifiedAllow) =>
        \A i \in 1 .. Len(DeletionTargets) :
            \/ DeletionTargets[i] \notin ExistingPaths
            \/ DeletionTargets[i] \in TrackedPaths

\* The places of the words of the deletion that are targets: after the
\* command name, the words before the first -- that do not start with -,
\* and every word after the first --.
FirstSeparator ==
    LET seps == {i \in 2 .. Len(hook.env.command) :
                    hook.env.command[i] = "--"}
    IN IF seps = {} THEN Len(hook.env.command) + 1
       ELSE CHOOSE i \in seps : \A j \in seps : i <= j
TargetPlaces ==
    {i \in 2 .. Len(hook.env.command) :
        \/ i < FirstSeparator /\ hook.env.command[i] \notin FlagWords
        \/ i > FirstSeparator}
Place(k) ==
    CHOOSE i \in TargetPlaces :
        Cardinality({j \in TargetPlaces : j <= i}) = k

\* C26: the targets the hook reads from a deletion without quotes are, in
\* their order, the words after the command name that are not options: a
\* word that starts with - before the first -- is no target, the first --
\* is no target, and every word after it is one.
C26_TargetsAfterSeparator ==
    (OnDeletion /\ \A i \in 1 .. Len(hook.env.command) :
                      hook.env.command[i] \notin QuoteWords) =>
        /\ Len(DeletionTargets) = Cardinality(TargetPlaces)
        /\ \A k \in 1 .. Len(DeletionTargets) :
              DeletionTargets[k] = hook.env.command[Place(k)]

\* The hook has read the one target -weirdname from rm -- -weirdname.
C26_Witness ==
    /\ hook.pc = "done"
    /\ hook.env.command = <<"rm", "--", "-weirdname">>
    /\ DeletionTargets = <<"-weirdname">>

\* The hook has classified a clarifying question: it was started on an
\* envelope it can read whose tool is AskUserQuestion.
OnQuestion ==
    /\ hook.pc # "idle"
    /\ hook.env.stdin = Object
    /\ hook.env.session_id = "str"
    /\ hook.env.tool = "AskUserQuestion"

\* The hook has sent the request to the broker.
Forwarded == hook.pc = "forwarding" \/ hook.reply.kind # NoneVal

\* The hook has ended without output and without asking the broker.
PassedThrough ==
    hook.pc = "done" /\ hook.reply.kind = NoneVal /\ hook.out = NoOutput

\* C27: a clarifying question is forwarded to the broker whenever the
\* terminal of the agent can be reached (TMUX is set), ends without any hook
\* output whenever it cannot, and is never allowed by the hook itself.
C27_QuestionForwardedOrPassed ==
    OnQuestion =>
        /\ ~ClassifiedAllow
        /\ hook.env.tmux => Forwarded
        /\ ~hook.env.tmux => PassedThrough

\* A clarifying question is with the broker.
C27_Witness == OnQuestion /\ hook.env.tmux /\ hook.pc = "forwarding"

\* The run before this one was on the same command text, in the same state
\* of the repository.
SameAsLast ==
    /\ hook.pc # "idle"
    /\ hook.last # NoRun
    /\ hook.last.env.command = hook.env.command
    /\ hook.last.env.repo = hook.env.repo

C29_StopAlwaysOk ==
    \A p \in Procs :
        (call[p].kind = "stop" /\ call[p].pc = "done") =>
            call[p].response = StatusOk

\* C30: whatever APPROVAL_TIMEOUT the broker is configured with, the timer
\* of the hook is due strictly after the one of the broker, so that a
\* request nobody answers ends with the deny of the broker: the hook never
\* gives up on its own timeout.
C30_BrokerTimesOutFirst == hook.pc = "done" => hook.reply.kind # "timeout"

\* Slot p holds a request that is registered under its own request_id.
InFlight(p) ==
    /\ call[p].kind = "approve"
    /\ call[p].rid # ""
    /\ pending[call[p].rid] = p

\* The step resolves the request of slot p or takes it out of the registry.
ResolvedNow(p) ==
    \/ req'[p] # req[p]
    \/ pending'[call[p].rid] # p

\* C31: requests with distinct request_ids are independent: a step that
\* resolves one of two requests in flight (Allow, Deny, Allow All, a reply, a
\* timeout) leaves the decision, the reason, the signal and the registry
\* entry of the other one as they were.
C31_DistinctIndependent ==
    [][\A p \in PairSlots, q \in PairSlots :
          (p # q /\ InFlight(p) /\ InFlight(q) /\ ResolvedNow(p))
             => (req'[q] = req[q] /\ pending'[call[q].rid] = q)]_vars

\* Two requests were pending at once; one has been resolved by a human and
\* answered, the other is still registered and undecided.
C31_OneResolvedOtherPending ==
    \E p \in PairSlots, q \in PairSlots :
        /\ p # q
        /\ call[p].kind = "approve" /\ call[p].pc = "done"
        /\ humanWrote[p] /\ req[p].event
        /\ call[p].response = Decided(req[p].decision, req[p].reason)
        /\ InFlight(q) /\ call[q].pc = "waiting"
        /\ view[q].posted /\ req[q] = NewRequest
        /\ call[p].sid = call[q].sid

\* C32: no operation cancels a request in flight.  Every step of a
\* handle_stop leaves the registry, the requests and the views as they were,
\* so a request of the closed session stays registered, undecided and open
\* to its buttons; and a step that writes a decision into a request is
\* either a human's resolution or the timeout's deny.
C32_CloseCancelsNothing ==
    [][/\ \A s \in StopSlots :
             call'[s] # call[s] =>
                (pending' = pending /\ req' = req /\ view' = view)
       /\ \A p \in ApprovalSlots :
             (req'[p] # req[p] /\ req'[p] # NewRequest) =>
                \/ humanWrote'[p] /\ interaction_reply' = "ok"
                \/ /\ req'[p].decision = "deny"
                   /\ req'[p].reason \in TimedOutReasons]_vars

\* The session of a request in flight has been closed and archived; the
\* request is still registered and undecided and its view still takes
\* interactions.
C32_PendingAfterClose ==
    \E p \in ApprovalSlots, s \in StopSlots :
        /\ InFlight(p) /\ call[p].pc = "waiting"
        /\ call[p].sid # "" /\ call[p].sid \in closed
        /\ call[s].kind = "stop" /\ call[s].sid = call[p].sid
        /\ call[s].pane = "" /\ call[s].pc = "done"
        /\ call[s].response = StatusOk
        /\ req[p] = NewRequest
        /\ ViewLive(p)

\* C33: for a session that is not under escalation, POST /approve is
\* answered allow only after a human pressed Allow or Allow All for that
\* request: whatever the tool and with or without a tmux pane, the step that
\* makes the answer allow finds the session escalated or a human's allow
\* written into the request.
C33_AllowNeedsHuman ==
    [][\A p \in ApprovalSlots :
          (/\ call[p].response.decision # "allow"
           /\ call'[p].response.decision = "allow")
             => \/ call'[p].sid \in auto_allow_sessions
                \/ humanWrote[p] /\ req[p].decision = "allow"]_vars

\* C34: the timeout path never overwrites a decision a human has recorded.
\* Once a human callback has set the request's signal, a step of a timer
\* (the view's timeout, the timeout of the broker's wait) leaves the
\* request's decision and reason as they are, and the answer of POST
\* /approve carries them.
C34_TimeoutKeepsHumanDecision ==
    [][\A p \in ApprovalSlots :
          (/\ humanWrote[p] /\ req[p].event
           /\ (on_timeout(p) \/ wait_times_out(p)))
             => /\ req'[p].decision = req[p].decision
                /\ req'[p].reason = req[p].reason
                /\ call'[p].pc = "done" =>
                       call'[p].response =
                          Decided(req[p].decision, req[p].reason)]_vars

\* The step is the entry of a POST /approve in slot p that is answered allow
\* by the escalation check.
AutoAllowedNow(p) ==
    /\ call[p].pc = "idle"
    /\ call'[p].kind = "approve" /\ call'[p].pc = "done"
    /\ call'[p].response = Decided("allow", NoneVal)

\* C35: escalation is session-scoped.  The escalation flag of a session is
\* set only by Allow All on a registered request of that session and never
\* for the empty session_id; and a POST /approve is auto-allowed only for a
\* non-empty session_id whose flag is set and which has not been closed
\* since.
C35_EscalationSessionScoped ==
    [][/\ \A s \in auto_allow_sessions' \ auto_allow_sessions :
             /\ s # ""
             /\ \E p \in ApprovalSlots :
                   /\ call[p].sid = s
                   /\ Registered(call[p].rid)
                   /\ allow_all(p)
       /\ \A p \in ApprovalSlots :
             AutoAllowedNow(p) =>
                /\ call'[p].sid # ""
                /\ call'[p].sid \in auto_allow_sessions
                /\ call'[p].sid \notin closed]_vars

\* C36: each session is bound to its own thread.  No two session_ids are
\* bound to the same thread at the same time, also when both derive the
\* same title, and the thread a close archives is bound to no other session.
C36_OwnThread ==
    /\ [](\A a \in SessionKeys, b \in SessionKeys :
            (a # b /\ session_threads[a] # NoThread)
               => session_threads[a] # session_threads[b])
    /\ [][\A s \in StopSlots :
             archive_thread(s, TRUE) =>
                \A b \in SessionKeys : session_threads[b] # call[s].th]_vars

\* C37: the thread _get_or_create_thread returns is not archived when the
\* decision request is posted into it, whatever a close of the same session
\* does in between: the step that posts the view of a POST /approve never
\* finds its thread archived with the session closed.
C37_PostedToOpenThread ==
    [][\A p \in ApprovalSlots :
          (/\ call[p].kind = "approve" /\ call[p].pc = "send"
           /\ view'[p].posted
           /\ call[p].sid \in closed)
             => ~threads[call[p].th].archived]_vars

\* C38: for a multi-question set of any size, Submit on a registered
\* request resolves it, with the combined answers as reason, if and only if
\* the human has selected in every dropdown the view shows; with a dropdown
\* unanswered it leaves the request and the registry as they are.
C38_SubmitWhenAllAnswered ==
    [][\A p \in ApprovalSlots :
          (submit_callback(p) /\ Registered(call[p].rid))
             => /\ (view[p].answers = Dropdowns(p))
                      <=> /\ interaction_reply' = "ok"
                          /\ req'[p] = [decision |-> "deny",
                                        reason |-> CombinedAnswers,
                                        event |-> TRUE]
                /\ (view[p].answers # Dropdowns(p))
                      => (req' = req /\ pending' = pending)]_vars

\* The hook has run on a deletion behind assignments and sudo.
OnPrefixed ==
    /\ hook.pc # "idle"
    /\ hook.env.tool = "Bash"
    /\ hook.env.command \in PrefixedDeletions

\* C39: in a segment that is a deletion command behind any number of
\* variable assignments and sudo, the classifier takes the deletion
\* command, with or without its directory, as the base command; that word
\* is the token the target parser skips as the command name; and the
\* segment is treated as a deletion: with a target that is not tracked, or
\* outside a repository, the hook does not allow it by itself.
C39_PrefixedDeletion ==
    OnPrefixed =>
       LET cmd == hook.env.command
           base == BaseIndex(cmd)
           skipped == BaseIndex(Tokens(cmd))
       IN /\ base # 0
          /\ Basename(cmd[base]) \in DESTRUCTIVE_COMMANDS
          /\ ~Unparsed(cmd) /\ skipped # 0
          /\ Tokens(cmd)[skipped] = cmd[base]
          /\ (~hook.env.repo.in_repo \/ cmd[Len(cmd)] \in UntrackedPaths)
                => ~ClassifiedAllow

====
